---- MODULE Spec2Model ----
(***************************************************************************)
(* Banking GraphQL service (code/python/banking-graphql-fastapi/app).      *)
(*                                                                         *)
(* The state is the relational store of models.py (tables customers,      *)
(* accounts, transactions) and, per request, the SQLAlchemy session the    *)
(* resolver works in.  Every resolver of graphql_schema.py is an operator  *)
(* over the store, built from the statements of its body.                  *)
(*                                                                         *)
(* Balances and amounts are Float columns; the model draws them from small *)
(* integers, which IEEE doubles represent exactly, so that + and - on them *)
(* are the float operations of the code.                                   *)
(***************************************************************************)
EXTENDS Integers, Sequences, FiniteSets, TLC

\* Bound of the model: rows in the store, over its three tables.
MaxRows == 4

\* Inputs of the mutations.
Names == {"Alice"}
Balances == {-1, 0, 2}
Amounts == {-1, 0, 1, 2}
\* Ids a caller may pass; a table with fewer rows holds no row of the larger ones.
CustomerIds == {1, 2}
AccountIds == {1, 2}

\* Concurrent requests of SpecConc, their inputs and the accounts they find.
ConcAccounts == 2
Procs == {"r1", "r2"}
ConcBalances == {0, 2}
ConcAmounts == {1, 2}

VARIABLES
    customers,      \* table customers:    <<[id, name]>>
    accounts,       \* table accounts:     <<[id, customer_id, balance]>>
    transactions,   \* table transactions: <<[id, from_account_id, to_account_id, amount]>>
    last,           \* the last call and its response: [op, args, err, ret]
    listed,         \* <<[ret, calls]>>: what accounts returned, and in how many calls
                    \* (1, or 2 for more), since the last committed write; else <<>>
    faults,         \* whether the store may fail a statement or a COMMIT
    req,            \* SpecConc: the transfer_funds call of each request
    start           \* SpecConc: the accounts table before the requests began

vars == <<customers, accounts, transactions, last, listed, faults, req, start>>

store == [customers |-> customers, accounts |-> accounts, transactions |-> transactions]

----------------------------------------------------------------------------
(* models.py: rows and keys *)

Customer(id, name) == [id |-> id, name |-> name]

Account(id, customer_id, balance) ==
    [id |-> id, customer_id |-> customer_id, balance |-> balance]

Transaction(id, from_account_id, to_account_id, amount) ==
    [id |-> id, from_account_id |-> from_account_id,
     to_account_id |-> to_account_id, amount |-> amount]

\* Column(Integer, primary_key=True): SQLite gives a new row the next rowid.
\* No row is ever deleted, so that is the row count plus one.
NextId(table) == Len(table) + 1

\* query(...).filter(X.id == id).first(): <<row>>, or <<>> for None.
First(table, id) ==
    LET hits == SelectSeq(table, LAMBDA r : r.id = id)
    IN  IF hits = <<>> THEN <<>> ELSE <<hits[1]>>

----------------------------------------------------------------------------
(* The session: SessionLocal = sessionmaker(autocommit=False, autoflush=False) *)

\* database.get_db: each resolver call works in a session of its own, which
\* starts with an empty identity map and nothing pending.
get_db == [objs |-> <<>>, new |-> <<>>]

\* db.query(Account).filter(Account.id == id).first() in session s: the row is
\* read from the store; a row whose object the session already holds yields
\* that same object (the identity map), with the attributes it has.
QueryAccount(s, db, id) ==
    LET row == First(db.accounts, id)
    IN  IF row = <<>> \/ id \in DOMAIN s.objs
        THEN s
        ELSE [s EXCEPT !.objs = @ @@ (id :> [loaded |-> row[1].balance,
                                                 balance |-> row[1].balance])]

\* db.add(row)
Add(s, table, row) == [s EXCEPT !.new = Append(@, [table |-> table, row |-> row])]

\* The statements a flush emits: an UPDATE for every held account whose
\* balance differs from the loaded one (in primary-key order), then the
\* INSERTs of the added rows.
RECURSIVE Updates(_, _)
Updates(s, ids) ==
    IF ids = {} THEN <<>>
    ELSE LET id == CHOOSE i \in ids : \A j \in ids : i <= j
             rest == Updates(s, ids \ {id})
         IN  IF s.objs[id].balance # s.objs[id].loaded
             THEN <<[kind |-> "update", id |-> id, balance |-> s.objs[id].balance]>> \o rest
             ELSE rest

Inserts(s) == [i \in 1..Len(s.new) |->
                 [kind |-> "insert", table |-> s.new[i].table, row |-> s.new[i].row]]

Flush(s) == Updates(s, DOMAIN s.objs) \o Inserts(s)

\* One statement on the store.  An INSERT takes the table's next id.
Execute(db, stmt) ==
    IF stmt.kind = "update"
    THEN [db EXCEPT !.accounts =
            [i \in 1..Len(@) |-> IF @[i].id = stmt.id
                                 THEN [@[i] EXCEPT !.balance = stmt.balance]
                                 ELSE @[i]]]
    ELSE IF stmt.table = "customers"
    THEN [db EXCEPT !.customers = Append(@, Customer(NextId(@), stmt.row.name))]
    ELSE IF stmt.table = "accounts"
    THEN [db EXCEPT !.accounts =
            Append(@, Account(NextId(@), stmt.row.customer_id, stmt.row.balance))]
    ELSE [db EXCEPT !.transactions =
            Append(@, Transaction(NextId(@), stmt.row.from_account_id,
                                  stmt.row.to_account_id, stmt.row.amount))]

RECURSIVE ExecuteAll(_, _)
ExecuteAll(db, stmts) ==
    IF stmts = <<>> THEN db
    ELSE ExecuteAll(Execute(db, Head(stmts)), Tail(stmts))

Min(a, b) == IF a <= b THEN a ELSE b

\* A session that commits every statement as it is executed (autocommit):
\* the statements before the failing one stay in the store.
CommitEachStatement(db, s, failAt) ==
    IF failAt = 0
    THEN [db |-> ExecuteAll(db, Flush(s)), err |-> ""]
    ELSE [db |-> ExecuteAll(db, SubSeq(Flush(s), 1, Min(failAt - 1, Len(Flush(s))))),
          err |-> "OperationalError"]

\* db.commit() with autocommit=False: the flush and the COMMIT are one
\* database transaction.  failAt = 0: nothing fails.  failAt = k: statement k
\* of the flush fails, or the COMMIT itself when k exceeds their number;
\* the transaction is rolled back and the store is as before.
Commit(db, s, failAt) ==
    IF failAt = 0
    THEN [db |-> ExecuteAll(db, Flush(s)), err |-> ""]
    ELSE [db |-> db, err |-> "OperationalError"]

----------------------------------------------------------------------------
(* graphql_schema.py: the response types *)

CustomerType(id, name) == [id |-> id, name |-> name]

AccountType(id, balance, customer) ==
    [id |-> id, balance |-> balance, customer |-> customer]

TransactionType(id, from_account, to_account, amount) ==
    [id |-> id, from_account |-> from_account, to_account |-> to_account,
     amount |-> amount]

\* A resolver's outcome: the store after it, the error it raised ("" for
\* none) and what it returned (<<>> when it raised).
Outcome(db, err, ret) == [db |-> db, err |-> err, ret |-> ret]

\* AccountType(id=a.id, balance=a.balance, customer=CustomerType(...)) of an
\* account row a: a.customer is the row customer_id refers to.
AccountView(db, a) ==
    LET c == First(db.customers, a.customer_id)
    IN  AccountType(a.id, a.balance, CustomerType(c[1].id, c[1].name))

\* a.customer is None for an account whose customer_id matches no customer,
\* and a.customer.id then raises.
Dangling(db, ids) == \E id \in ids :
    \/ First(db.accounts, id) = <<>>
    \/ First(db.customers, First(db.accounts, id)[1].customer_id) = <<>>

----------------------------------------------------------------------------
(* graphql_schema.py: class Query *)

Query_customers(db) ==
    Outcome(db, "", [i \in 1..Len(db.customers) |->
                       CustomerType(db.customers[i].id, db.customers[i].name)])

\* A resolver that also rewrites what it lists: it clears negative balances
\* and commits.
Query_accounts_clamping(db) ==
    LET clamped == [db EXCEPT !.accounts =
                      [i \in 1..Len(@) |-> IF @[i].balance < 0
                                           THEN [@[i] EXCEPT !.balance = 0]
                                           ELSE @[i]]]
    IN  Outcome(clamped, "", [i \in 1..Len(db.accounts) |-> AccountView(db, db.accounts[i])])

Query_accounts(db) ==
    IF Dangling(db, {db.accounts[i].id : i \in 1..Len(db.accounts)})
    THEN Outcome(db, "AttributeError", <<>>)
    ELSE Outcome(db, "", [i \in 1..Len(db.accounts) |-> AccountView(db, db.accounts[i])])

Query_transactions(db) ==
    IF Dangling(db, {db.transactions[i].from_account_id : i \in 1..Len(db.transactions)}
                    \cup {db.transactions[i].to_account_id : i \in 1..Len(db.transactions)})
    THEN Outcome(db, "AttributeError", <<>>)
    ELSE Outcome(db, "", [i \in 1..Len(db.transactions) |->
            LET t == db.transactions[i]
            IN  TransactionType(t.id,
                    AccountView(db, First(db.accounts, t.from_account_id)[1]),
                    AccountView(db, First(db.accounts, t.to_account_id)[1]),
                    t.amount)])

----------------------------------------------------------------------------
(* graphql_schema.py: class Mutation *)

create_customer(db, name, failAt) ==
    LET s == Add(get_db, "customers", [name |-> name])
        c == Commit(db, s, failAt)
    IN  IF c.err # ""
        THEN Outcome(c.db, c.err, <<>>)
        \* db.refresh(new_customer): the row as stored, with its new id
        ELSE Outcome(c.db, "", <<CustomerType(Len(c.db.customers), name)>>)

\* create_account without the lookup of the customer.
create_account_unchecked(db, customer_id, initial_balance, failAt) ==
    LET s == Add(get_db, "accounts", [customer_id |-> customer_id, balance |-> initial_balance])
        c == Commit(db, s, failAt)
        customer == First(db.customers, customer_id)
    IN  IF c.err # ""
        THEN Outcome(c.db, c.err, <<>>)
        \* customer.id of None raises, after the commit
        ELSE IF customer = <<>>
        THEN Outcome(c.db, "AttributeError", <<>>)
        ELSE Outcome(c.db, "",
                <<AccountType(Len(c.db.accounts), initial_balance,
                              CustomerType(customer[1].id, customer[1].name))>>)

create_account(db, customer_id, initial_balance, failAt) ==
    LET customer == First(db.customers, customer_id)
    IN  IF customer = <<>>
        THEN Outcome(db, "Customer not found", <<>>)
        ELSE LET s == Add(get_db, "accounts",
                          [customer_id |-> customer_id, balance |-> initial_balance])
                 c == Commit(db, s, failAt)
             IN  IF c.err # ""
                 THEN Outcome(c.db, c.err, <<>>)
                 ELSE Outcome(c.db, "",
                        <<AccountType(Len(c.db.accounts),
                                      c.db.accounts[Len(c.db.accounts)].balance,
                                      CustomerType(customer[1].id, customer[1].name))>>)

----------------------------------------------------------------------------
(* Mutation.transfer_funds, statement by statement.  A call is a record:    *)
(* its arguments, its session db, its locals from_account and to_account    *)
(* (<<id>> of the object held by the session, or <<>> for None), the error  *)
(* it raised and the line it is at.                                         *)

\* db = next(get_db())
TransferCall(from_account_id, to_account_id, amount) ==
    [pc |-> "query_from",
     from_account_id |-> from_account_id, to_account_id |-> to_account_id,
     amount |-> amount,
     db |-> get_db, from_account |-> <<>>, to_account |-> <<>>, err |-> ""]

\* from_account = db.query(Account).filter(Account.id == from_account_id).first()
QueryFrom(c, db) ==
    [c EXCEPT !.db = QueryAccount(@, db, c.from_account_id),
              !.from_account = IF First(db.accounts, c.from_account_id) = <<>>
                               THEN <<>> ELSE <<c.from_account_id>>,
              !.pc = "query_to"]

\* to_account = db.query(Account).filter(Account.id == to_account_id).first()
QueryTo(c, db) ==
    [c EXCEPT !.db = QueryAccount(@, db, c.to_account_id),
              !.to_account = IF First(db.accounts, c.to_account_id) = <<>>
                             THEN <<>> ELSE <<c.to_account_id>>,
              !.pc = "check"]

\* The debit without the credit.
MoveDebitOnly(s, from_id, to_id, amount) ==
    Add([s EXCEPT !.objs[from_id].balance = @ - amount], "transactions",
        [from_account_id |-> from_id, to_account_id |-> to_id, amount |-> amount])

\* from_account and to_account as two copies of the row even when the ids are
\* equal: the credit is computed from the balance as loaded.
MoveOnCopies(s, from_id, to_id, amount) ==
    LET debited == [s EXCEPT !.objs[from_id].balance = @ - amount]
        credited == [debited EXCEPT !.objs[to_id].balance = s.objs[to_id].balance + amount]
    IN  Add(credited, "transactions",
            [from_account_id |-> from_id, to_account_id |-> to_id, amount |-> amount])

\* from_account.balance -= amount; to_account.balance += amount;
\* db.add(Transaction(...)): the second statement reads what the first left,
\* and both names are one object when the ids are equal.
Move(s, from_id, to_id, amount) ==
    LET debited == [s EXCEPT !.objs[from_id].balance = @ - amount]
        credited == [debited EXCEPT !.objs[to_id].balance = @ + amount]
    IN  Add(credited, "transactions",
            [from_account_id |-> from_id, to_account_id |-> to_id, amount |-> amount])

\* The resolver without its balance check.
CheckAndMoveNoFundsCheck(c) ==
    IF c.from_account = <<>> \/ c.to_account = <<>>
    THEN [c EXCEPT !.err = "Account not found", !.pc = "raised"]
    ELSE [c EXCEPT !.db = Move(@, c.from_account[1], c.to_account[1], c.amount),
                   !.pc = "commit"]

\* The resolver with its two checks in the other order.
CheckAndMoveFundsFirst(c) ==
    IF c.from_account # <<>> /\ c.db.objs[c.from_account[1]].balance < c.amount
    THEN [c EXCEPT !.err = "Insufficient balance", !.pc = "raised"]
    ELSE IF c.from_account = <<>> \/ c.to_account = <<>>
    THEN [c EXCEPT !.err = "Account not found", !.pc = "raised"]
    ELSE [c EXCEPT !.db = Move(@, c.from_account[1], c.to_account[1], c.amount),
                   !.pc = "commit"]

\* The two raises and the in-memory update, lines 91 to 101.
CheckAndMove(c) ==
    IF c.from_account = <<>> \/ c.to_account = <<>>
    THEN [c EXCEPT !.err = "Account not found", !.pc = "raised"]
    ELSE IF c.db.objs[c.from_account[1]].balance < c.amount
    THEN [c EXCEPT !.err = "Insufficient balance", !.pc = "raised"]
    ELSE [c EXCEPT !.db = Move(@, c.from_account[1], c.to_account[1], c.amount),
                   !.pc = "commit"]

\* db.commit(); return True
CommitTransfer(c, db, failAt) ==
    LET r == Commit(db, c.db, failAt)
    IN  [call |-> [c EXCEPT !.err = r.err,
                            !.pc = IF r.err = "" THEN "returned" ELSE "raised"],
         db |-> r.db]

\* The whole resolver, run without interruption.
transfer_funds(db, from_account_id, to_account_id, amount, failAt) ==
    LET c == CheckAndMove(QueryTo(QueryFrom(
                 TransferCall(from_account_id, to_account_id, amount), db), db))
    IN  IF c.pc = "raised"
        THEN Outcome(db, c.err, <<>>)
        ELSE LET r == CommitTransfer(c, db, failAt)
             IN  IF r.call.pc = "raised"
                 THEN Outcome(r.db, r.call.err, <<>>)
                 ELSE Outcome(r.db, "", <<TRUE>>)

----------------------------------------------------------------------------
(* The service, one request at a time: every resolver runs to its end.     *)

NoCall == [pc |-> "idle", from_account_id |-> 0, to_account_id |-> 0, amount |-> 0,
           db |-> get_db, from_account |-> <<>>, to_account |-> <<>>, err |-> ""]

\* Where a commit of up to n statements may fail: at one of them, or at its
\* COMMIT; 0 is no failure.
FailPoints(n) == IF faults THEN 0..(n + 1) ELSE {0}

Bounded(db) ==
    Len(db.customers) + Len(db.accounts) + Len(db.transactions) <= MaxRows

\* The store and the response after a resolver with outcome r.
Respond(op, args, r) ==
    /\ Bounded(r.db)
    /\ customers' = r.db.customers
    /\ accounts' = r.db.accounts
    /\ transactions' = r.db.transactions
    /\ last' = [op |-> op, args |-> args, err |-> r.err, ret |-> r.ret]
    /\ listed' = IF op = "accounts" /\ r.err = ""
                 THEN <<[ret |-> r.ret, calls |-> IF listed = <<>> THEN 1 ELSE 2]>>
                 ELSE IF r.db # store THEN <<>>
                 ELSE listed
    /\ UNCHANGED <<faults, req, start>>

ListCustomers == Respond("customers", <<>>, Query_customers(store))

ListAccounts == Respond("accounts", <<>>, Query_accounts(store))

ListTransactions == Respond("transactions", <<>>, Query_transactions(store))

CreateCustomer ==
    \E name \in Names, failAt \in FailPoints(1) :
        Respond("create_customer", <<name>>, create_customer(store, name, failAt))

CreateAccount ==
    \E customer_id \in CustomerIds, initial_balance \in Balances, failAt \in FailPoints(1) :
        Respond("create_account", <<customer_id, initial_balance>>,
                create_account(store, customer_id, initial_balance, failAt))

TransferFunds ==
    \E from_account_id \in AccountIds, to_account_id \in AccountIds,
       amount \in Amounts :
      \* a call that raises before its commit has no statement to fail
      \E failAt \in IF transfer_funds(store, from_account_id, to_account_id, amount, 0).err # ""
                  THEN {0} ELSE FailPoints(3) :
        Respond("transfer_funds", <<from_account_id, to_account_id, amount>>,
                transfer_funds(store, from_account_id, to_account_id, amount, failAt))

Empty ==
    /\ customers = <<>>
    /\ accounts = <<>>
    /\ transactions = <<>>
    /\ last = [op |-> "none", args |-> <<>>, err |-> "", ret |-> <<>>]
    /\ listed = <<>>
    /\ req = [p \in Procs |-> NoCall]
    /\ start = <<>>

Init == Empty /\ faults = FALSE

InitFaulty == Empty /\ faults = TRUE

Next ==
    \/ ListCustomers
    \/ ListAccounts
    \/ ListTransactions
    \/ CreateCustomer
    \/ CreateAccount
    \/ TransferFunds

\* The store is available: no statement and no COMMIT fails.
Spec == Init /\ [][Next]_vars

\* A statement or the COMMIT of any commit may fail.
SpecFaulty == InitFaulty /\ [][Next]_vars

----------------------------------------------------------------------------
(* Two transfer_funds calls at once, each in its own session, interleaved  *)
(* between their statements.  SQLite runs the write transaction of a       *)
(* commit alone: the commit is one step.                                   *)

Begin(p) ==
    /\ req[p].pc = "idle"
    /\ \E from_account_id \in 1..Len(accounts), to_account_id \in 1..Len(accounts),
          amount \in ConcAmounts :
            req' = [req EXCEPT ![p] = TransferCall(from_account_id, to_account_id, amount)]
    /\ UNCHANGED <<customers, accounts, transactions, last, listed, faults, start>>

StepQueryFrom(p) ==
    /\ req[p].pc = "query_from"
    /\ req' = [req EXCEPT ![p] = QueryFrom(@, store)]
    /\ UNCHANGED <<customers, accounts, transactions, last, listed, faults, start>>

StepQueryTo(p) ==
    /\ req[p].pc = "query_to"
    /\ req' = [req EXCEPT ![p] = QueryTo(@, store)]
    /\ UNCHANGED <<customers, accounts, transactions, last, listed, faults, start>>

StepCheckAndMove(p) ==
    /\ req[p].pc = "check"
    /\ req' = [req EXCEPT ![p] = CheckAndMove(@)]
    /\ UNCHANGED <<customers, accounts, transactions, last, listed, faults, start>>

StepCommit(p) ==
    /\ req[p].pc = "commit"
    /\ LET r == CommitTransfer(req[p], store, 0)
       IN  /\ req' = [req EXCEPT ![p] = r.call]
           /\ customers' = r.db.customers
           /\ accounts' = r.db.accounts
           /\ transactions' = r.db.transactions
    /\ UNCHANGED <<last, listed, faults, start>>

InitConc ==
    /\ customers = <<Customer(1, "Alice")>>
    /\ accounts \in {[i \in 1..ConcAccounts |-> Account(i, 1, b[i])] :
                        b \in [1..ConcAccounts -> ConcBalances]}
    /\ transactions = <<>>
    /\ last = [op |-> "none", args |-> <<>>, err |-> "", ret |-> <<>>]
    /\ listed = <<>>
    /\ faults = FALSE
    /\ req = [p \in Procs |-> NoCall]
    /\ start = accounts

NextConc ==
    \E p \in Procs :
        \/ Begin(p)
        \/ StepQueryFrom(p)
        \/ StepQueryTo(p)
        \/ StepCheckAndMove(p)
        \/ StepCommit(p)

SpecConc == InitConc /\ [][NextConc]_vars

----------------------------------------------------------------------------
(* Properties *)

Exists(table, id) == First(table, id) # <<>>

BalanceOf(table, id) == First(table, id)[1].balance

RECURSIVE Total(_)
Total(table) == IF table = <<>> THEN 0 ELSE Head(table).balance + Total(Tail(table))

IsCall(op) == last'.op = op

Returned(op) == last'.op = op /\ last'.err = ""

\* The step appends to transactions exactly one row, (from_id, to_id, amount).
OneNewTransaction(from_id, to_id, amount) ==
    /\ Len(transactions') = Len(transactions) + 1
    /\ SubSeq(transactions', 1, Len(transactions)) = transactions
    /\ LET t == transactions'[Len(transactions')]
       IN  /\ t.from_account_id = from_id
           /\ t.to_account_id = to_id
           /\ t.amount = amount

\* The step changes no balance but those of from_id and to_id, and adds no account.
OnlyTouches(from_id, to_id) ==
    /\ Len(accounts') = Len(accounts)
    /\ \A i \in 1..Len(accounts) :
         accounts[i].id \notin {from_id, to_id} => accounts'[i] = accounts[i]

\* C1 as stated: after transfer_funds(A, B, amount) with amount >= 0 returns
\* true, A's balance is lower by amount, B's balance is higher by amount and
\* exactly one new Transaction row records (A, B, amount), also when A = B.
C1_TransferMovesAmount ==
    [][(Returned("transfer_funds") /\ last'.args[3] >= 0) =>
         LET A == last'.args[1]
             B == last'.args[2]
             amount == last'.args[3]
         IN  /\ BalanceOf(accounts', A) = BalanceOf(accounts, A) - amount
             /\ BalanceOf(accounts', B) = BalanceOf(accounts, B) + amount
             /\ OneNewTransaction(A, B, amount)]_vars

\* C1 amended: after transfer_funds(A, B, amount) with amount >= 0 returns
\* true, exactly one new Transaction row records (A, B, amount); when A and B
\* are different accounts, A's balance is lower by amount and B's is higher
\* by amount; when they are the same account, its balance is unchanged.
C1_TransferMovesAmountBetweenDistinct ==
    [][(Returned("transfer_funds") /\ last'.args[3] >= 0) =>
         LET A == last'.args[1]
             B == last'.args[2]
             amount == last'.args[3]
         IN  /\ OneNewTransaction(A, B, amount)
             /\ A # B => /\ BalanceOf(accounts', A) = BalanceOf(accounts, A) - amount
                         /\ BalanceOf(accounts', B) = BalanceOf(accounts, B) + amount
             /\ A = B => BalanceOf(accounts', A) = BalanceOf(accounts, A)]_vars

\* C1 witness: a transfer of a positive amount between two different accounts
\* has returned true.
C1_Witness ==
    /\ last.op = "transfer_funds" /\ last.err = "" /\ last.ret = <<TRUE>>
    /\ last.args[1] # last.args[2]
    /\ last.args[3] > 0

\* C2 as stated: in every reachable state every account's balance is
\* non-negative.
C2_BalancesNonNegative ==
    \A i \in 1..Len(accounts) : accounts[i].balance >= 0

\* C3: transfer_funds(A, B, amount) on existing accounts with amount above
\* A's balance raises "Insufficient balance", changes no balance and adds no
\* Transaction row.
C3_InsufficientFundsRejected ==
    [][(IsCall("transfer_funds")
          /\ Exists(accounts, last'.args[1]) /\ Exists(accounts, last'.args[2])
          /\ last'.args[3] > BalanceOf(accounts, last'.args[1])) =>
         /\ last'.err = "Insufficient balance"
         /\ last'.ret = <<>>
         /\ accounts' = accounts
         /\ transactions' = transactions]_vars

\* C3 witness: a transfer between two existing accounts, for more than the
\* source holds, was rejected.
C3_Witness ==
    /\ last.op = "transfer_funds" /\ last.err = "Insufficient balance"
    /\ Exists(accounts, last.args[1]) /\ Exists(accounts, last.args[2])
    /\ last.args[1] # last.args[2]
    /\ last.args[3] > BalanceOf(accounts, last.args[1])
    /\ BalanceOf(accounts, last.args[1]) > 0

\* C4: transfer_funds with a source or destination id that matches no account
\* raises "Account not found", whatever the amount and the other account's
\* balance, and changes no balance and no Transaction row.
C4_UnknownAccountRejected ==
    [][(IsCall("transfer_funds")
          /\ (~Exists(accounts, last'.args[1]) \/ ~Exists(accounts, last'.args[2]))) =>
         /\ last'.err = "Account not found"
         /\ last'.ret = <<>>
         /\ accounts' = accounts
         /\ transactions' = transactions]_vars

\* C4 witness: a transfer from an existing account that could not cover the
\* amount, to an id that matches no account, was rejected as not found.
C4_Witness ==
    /\ last.op = "transfer_funds" /\ last.err = "Account not found"
    /\ Exists(accounts, last.args[1]) /\ ~Exists(accounts, last.args[2])
    /\ last.args[3] > BalanceOf(accounts, last.args[1])

\* C5: create_account(customer_id, b) returns iff a Customer with that id
\* exists.  Then exactly one Account (customer_id, b) is added and the
\* returned account's customer id is customer_id; otherwise it raises
\* "Customer not found" and adds no Account.
C5_CreateAccountIffCustomer ==
    [][IsCall("create_account") =>
         LET customer_id == last'.args[1]
             b == last'.args[2]
         IN  IF Exists(customers, customer_id)
             THEN /\ last'.err = ""
                  /\ accounts' = Append(accounts, Account(Len(accounts) + 1, customer_id, b))
                  /\ Len(last'.ret) = 1
                  /\ last'.ret[1].id = Len(accounts) + 1
                  /\ last'.ret[1].balance = b
                  /\ last'.ret[1].customer.id = customer_id
             ELSE /\ last'.err = "Customer not found"
                  /\ accounts' = accounts]_vars

\* C5 witness: an account was created for an existing customer, after an
\* earlier one.
C5_Witness ==
    /\ last.op = "create_account" /\ last.err = ""
    /\ Len(accounts) >= 2
    /\ accounts[Len(accounts)].customer_id = last.args[1]

\* C6: every Account's customer_id is the id of a Customer, and every
\* Transaction's from_account_id and to_account_id are ids of Accounts.
C6_ReferentialIntegrity ==
    /\ \A i \in 1..Len(accounts) : Exists(customers, accounts[i].customer_id)
    /\ \A i \in 1..Len(transactions) :
         /\ Exists(accounts, transactions[i].from_account_id)
         /\ Exists(accounts, transactions[i].to_account_id)

\* C6 witness: the store holds two accounts and a transaction between them.
C6_Witness ==
    /\ Len(accounts) >= 2
    /\ \E i \in 1..Len(transactions) :
         transactions[i].from_account_id # transactions[i].to_account_id

\* C7: transfer_funds is all or nothing.  When it returns, both balance
\* updates and the Transaction row are in the store; when it raises, also
\* because a statement or the COMMIT of its commit failed, the store is as it
\* was before the call.
C7_TransferAllOrNothing ==
    [][IsCall("transfer_funds") =>
         LET A == last'.args[1]
             B == last'.args[2]
             amount == last'.args[3]
         IN  IF last'.err = ""
             THEN /\ OneNewTransaction(A, B, amount)
                  /\ OnlyTouches(A, B)
                  /\ A # B => /\ BalanceOf(accounts', A) = BalanceOf(accounts, A) - amount
                              /\ BalanceOf(accounts', B) = BalanceOf(accounts, B) + amount
                  /\ A = B => BalanceOf(accounts', A) = BalanceOf(accounts, A)
             ELSE /\ customers' = customers
                  /\ accounts' = accounts
                  /\ transactions' = transactions]_vars

\* C7 witness: the commit of a transfer of a positive amount between two
\* different accounts failed.
C7_Witness ==
    /\ faults
    /\ last.op = "transfer_funds" /\ last.err = "OperationalError"
    /\ last.args[1] # last.args[2]
    /\ last.args[3] > 0

\* C8: customers, accounts and transactions change no stored row, and
\* accounts returns what it returned before when no write was committed in
\* between.
C8_ListsReadOnlyAndRepeatable ==
    [][/\ (IsCall("customers") \/ IsCall("accounts") \/ IsCall("transactions")) =>
            /\ customers' = customers
            /\ accounts' = accounts
            /\ transactions' = transactions
       /\ (IsCall("accounts") /\ listed # <<>>) =>
            /\ last'.err = ""
            /\ last'.ret = listed[1].ret]_vars

\* C8 witness: accounts was called again with no write since, over a store
\* with accounts.
C8_Witness ==
    /\ last.op = "accounts"
    /\ listed # <<>>
    /\ listed[1].calls = 2
    /\ Len(last.ret) >= 2

\* The calls of SpecConc that returned true, in every order.
Succeeded == {p \in Procs : req[p].pc = "returned"}

Orders(S) == {o \in [1..Cardinality(S) -> S] : \A i, j \in DOMAIN o : o[i] = o[j] => i = j}

\* The store after running the calls of o one after the other from db.
RECURSIVE Serial(_, _)
Serial(db, o) ==
    IF o = <<>> THEN db
    ELSE LET c == req[Head(o)]
         IN  Serial(transfer_funds(db, c.from_account_id, c.to_account_id, c.amount, 0).db,
                    Tail(o))

\* C9 as stated: when two transfer_funds calls interleave, the final balances
\* are those of running the calls that returned true one after the other in
\* some order, and no account ends negative.
C9_NoLostUpdate ==
    (\A p \in Procs : req[p].pc \in {"returned", "raised"}) =>
        /\ \E o \in Orders(Succeeded) :
             Serial([customers |-> customers, accounts |-> start,
                     transactions |-> <<>>], o).accounts = accounts
        /\ \A i \in 1..Len(accounts) : accounts[i].balance >= 0

\* C10: every transfer_funds call, returning or raising, for any amount and
\* also from an account to itself, leaves the sum of all balances unchanged;
\* the sum changes only when create_account returns, by the initial balance.
C10_MoneyConserved ==
    [][IF Returned("create_account")
       THEN Total(accounts') = Total(accounts) + last'.args[2]
       ELSE Total(accounts') = Total(accounts)]_vars

\* C10 witness: a transfer of a non-zero amount from an account to itself has
\* returned true.
C10_Witness ==
    /\ last.op = "transfer_funds" /\ last.err = ""
    /\ last.args[1] = last.args[2]
    /\ last.args[3] # 0

====
